---- MODULE Spec2Model ----
(***************************************************************************)
(* Model of src/app.py, the ZIP file modifier: create_file_in_zip and      *)
(* create_symlink_in_zip (the archive rewrite through a staging file that  *)
(* replaces the archive), view_file_in_zip, edit_file_in_zip with          *)
(* edit_with_external_editor, and is_symlink_in_zip.                       *)
(*                                                                         *)
(* A file is a sequence of chunks.  An archive file holds one local chunk  *)
(* (header + data) per entry followed by one central directory chunk that  *)
(* lists, per entry, the attributes, the offset of the local chunk and a   *)
(* checksum of the data (modelled as the data itself).  Offsets count      *)
(* chunks.  The operating system is POSIX: an open file can be removed,    *)
(* os.sep is "/", and new entries get create_system 3.  Console output     *)
(* (print) always succeeds and is recorded as the `outcome` of a call.     *)
(* Modification times of entries are not modelled.                         *)
(***************************************************************************)
EXTENDS Integers, Sequences, FiniteSets, TLC

\* Longest archive (number of entries) the initial state may hold.
MaxEntries == 2

\* Largest origin tag (create_system) given to is_symlink_in_zip.
MaxSystem == 3

\* ------------------------------------------------------------------------
\* Program constants

ZIP_STORED == 0
ZIP_DEFLATED == 8
UNIX == 3
S_IFLNK == 40960
S_IFMT == 61440
LINK_PERM == 493
DEFAULT_PERM == 384
REPLACEMENT == 65533

Procs == {1, 2}
Inodes == 1 .. 6

\* ------------------------------------------------------------------------
\* Bit operations on naturals, and the 32-bit external attribute field as
\* two 16-bit halves (hi = bits 16..31, lo = bits 0..15).

RECURSIVE BitAnd(_, _)
BitAnd(a, b) ==
    IF a = 0 \/ b = 0 THEN 0
    ELSE (IF a % 2 = 1 /\ b % 2 = 1 THEN 1 ELSE 0) + 2 * BitAnd(a \div 2, b \div 2)

RECURSIVE BitOr(_, _)
BitOr(a, b) ==
    IF a = 0 THEN b
    ELSE IF b = 0 THEN a
    ELSE (IF a % 2 = 1 \/ b % 2 = 1 THEN 1 ELSE 0) + 2 * BitOr(a \div 2, b \div 2)

ShiftLeft16(x) == [hi |-> x % 65536, lo |-> 0]
ShiftRight16(w) == w.hi

\* (0o120000 | 0o755) << 16
SymlinkAttr == ShiftLeft16(BitOr(S_IFLNK, LINK_PERM))
\* 0o600 << 16, what ZipFile.writestr gives an entry created from a name
DefaultAttr == ShiftLeft16(DEFAULT_PERM)

is_symlink_in_zip_nomask(info) ==
    /\ info.create_system = UNIX
    /\ BitAnd(ShiftRight16(info.external_attr), S_IFLNK) = S_IFLNK

is_symlink_in_zip(info) ==
    /\ info.create_system = UNIX
    /\ BitAnd(ShiftRight16(info.external_attr), S_IFMT) = S_IFLNK

\* ------------------------------------------------------------------------
\* Paths are sequences of characters.

\* target_path.replace('\\', '/')
Normalize(path) == [i \in DOMAIN path |-> IF path[i] = "\\" THEN "/" ELSE path[i]]

NameA == <<"a">>
NameAB == <<"a", "/", "b">>
TargetPaths == {NameA, NameAB, <<"a", "\\", "b">>}

\* ------------------------------------------------------------------------
\* Text is a sequence of code points, content a sequence of bytes.

\* str.encode('utf-8') for code points below 0x10000
RECURSIVE Utf8Encode(_)
Utf8Encode(text) ==
    IF text = <<>> THEN <<>>
    ELSE LET c == Head(text)
             b == IF c < 128 THEN <<c>>
                  ELSE IF c < 2048 THEN <<192 + (c \div 64), 128 + (c % 64)>>
                  ELSE <<224 + (c \div 4096), 128 + ((c \div 64) % 64), 128 + (c % 64)>>
         IN  b \o Utf8Encode(Tail(text))

IsCont(b) == b \in 128 .. 191

SecondOk(b1, b2) ==
    IF b1 = 224 THEN b2 \in 160 .. 191
    ELSE IF b1 = 237 THEN b2 \in 128 .. 159
    ELSE IsCont(b2)

Drop(s, n) == SubSeq(s, n + 1, Len(s))

\* One decoding step: the number of bytes consumed, the code point produced,
\* and whether the bytes were a valid sequence.  Bytes 0xF0..0xF4 (leads of
\* four-byte sequences) do not occur in the model's alphabets.
DecodeStep(b) ==
    LET b1 == b[1] IN
    IF b1 < 128 THEN [n |-> 1, c |-> b1, valid |-> TRUE]
    ELSE IF b1 \in 194 .. 223 THEN
        IF Len(b) >= 2 /\ IsCont(b[2])
        THEN [n |-> 2, c |-> (b1 - 192) * 64 + (b[2] - 128), valid |-> TRUE]
        ELSE [n |-> 1, c |-> REPLACEMENT, valid |-> FALSE]
    ELSE IF b1 \in 224 .. 239 THEN
        IF Len(b) >= 2 /\ SecondOk(b1, b[2])
        THEN IF Len(b) >= 3 /\ IsCont(b[3])
             THEN [n |-> 3,
                   c |-> (b1 - 224) * 4096 + (b[2] - 128) * 64 + (b[3] - 128),
                   valid |-> TRUE]
             ELSE [n |-> 2, c |-> REPLACEMENT, valid |-> FALSE]
        ELSE [n |-> 1, c |-> REPLACEMENT, valid |-> FALSE]
    ELSE [n |-> 1, c |-> REPLACEMENT, valid |-> FALSE]

RECURSIVE Utf8Valid(_)
Utf8Valid(b) ==
    IF b = <<>> THEN TRUE
    ELSE LET s == DecodeStep(b) IN s.valid /\ Utf8Valid(Drop(b, s.n))

RECURSIVE Utf8DecodeReplace(_)
Utf8DecodeReplace(b) ==
    IF b = <<>> THEN <<>>
    ELSE LET s == DecodeStep(b) IN <<s.c>> \o Utf8DecodeReplace(Drop(b, s.n))

decode_strict(b, errors) ==
    [raised |-> ~Utf8Valid(b), text |-> IF Utf8Valid(b) THEN Utf8DecodeReplace(b) ELSE <<>>]

\* bytes.decode('utf-8', errors=...): with errors='replace' it never raises
decode(b, errors) ==
    IF errors = "replace"
    THEN [raised |-> FALSE, text |-> Utf8DecodeReplace(b)]
    ELSE decode_strict(b, errors)

\* Contents and symlink targets a caller passes
Texts == {<<65>>, <<233>>}
\* Bytes an editor may leave in the temporary file (besides leaving it as is)
EditorBytes == {<<66>>, <<255>>}

\* ------------------------------------------------------------------------
\* Files

NoName == <<>>
Hole == [kind |-> "hole", filename |-> NoName, data |-> <<>>, infos |-> <<>>]
Local(name, data) == [kind |-> "lfh", filename |-> name, data |-> data, infos |-> <<>>]
EndRecord(infos) == [kind |-> "cd", filename |-> NoName, data |-> <<>>, infos |-> infos]

\* The fields of a ZipInfo
Info(name, ct, attr, sys, off, crc) ==
    [filename |-> name, compress_type |-> ct, external_attr |-> attr,
     create_system |-> sys, header_offset |-> off, CRC |-> crc]

\* An entry as the claims speak of it: path, content and attributes
Entry(name, data, ct, attr, sys) ==
    [filename |-> name, data |-> data, compress_type |-> ct,
     external_attr |-> attr, create_system |-> sys]

\* fp.seek(off); fp.write(chunk)
WriteAt(f, off, chunk) ==
    LET n == IF Len(f) > off + 1 THEN Len(f) ELSE off + 1
    IN  [i \in 1 .. n |-> IF i = off + 1 THEN chunk
                          ELSE IF i <= Len(f) THEN f[i] ELSE Hole]

\* The file a ZipFile opened for writing leaves after writing `entries`
Serialize(entries) ==
    [i \in 1 .. Len(entries) |-> Local(entries[i].filename, entries[i].data)]
    \o <<EndRecord([i \in 1 .. Len(entries) |->
            Info(entries[i].filename, entries[i].compress_type,
                 entries[i].external_attr, entries[i].create_system,
                 i - 1, entries[i].data)])>>

CdIndexes(f) == {i \in DOMAIN f : f[i].kind = "cd"}
Maximum(S) == CHOOSE x \in S : \A y \in S : y <= x

\* ZipFile(path, 'r') finds the last end-of-central-directory record
HasEndRecord(f) == CdIndexes(f) # {}
infolist(f) == f[Maximum(CdIndexes(f))].infos
namelist(f) == {infolist(f)[i].filename : i \in DOMAIN infolist(f)}

\* ZipFile.getinfo(name): NameToInfo keeps the last entry of that name
getinfo(infos, name) ==
    infos[Maximum({i \in DOMAIN infos : infos[i].filename = name})]

\* ZipFile.read of the local chunk an info points at
ReadOk(f, info) ==
    /\ info.header_offset + 1 <= Len(f)
    /\ f[info.header_offset + 1].kind = "lfh"
    /\ f[info.header_offset + 1].filename = info.filename
    /\ f[info.header_offset + 1].data = info.CRC
ReadData(f, info) == f[info.header_offset + 1].data

\* A complete archive: what one ZipFile writer leaves when it runs alone
WellFormed(f) ==
    /\ Len(f) >= 1
    /\ f[Len(f)].kind = "cd"
    /\ Len(f[Len(f)].infos) = Len(f) - 1
    /\ \A i \in 1 .. Len(f) - 1 :
          /\ f[Len(f)].infos[i].header_offset = i - 1
          /\ ReadOk(f, f[Len(f)].infos[i])

\* The entries of a complete archive
Entries(f) ==
    [i \in 1 .. Len(f) - 1 |->
        Entry(f[i].filename, f[i].data, f[Len(f)].infos[i].compress_type,
              f[Len(f)].infos[i].external_attr, f[Len(f)].infos[i].create_system)]

\* Entries an archive may hold before the program first touches it
InitEntries ==
    { Entry(NameA, <<65>>, ZIP_STORED, ShiftLeft16(33188), UNIX),
      Entry(NameA, <<255>>, ZIP_DEFLATED, [hi |-> 0, lo |-> 32], 0),
      Entry(NameAB, <<65>>, ZIP_STORED, SymlinkAttr, UNIX),
      Entry(NameAB, <<255>>, ZIP_DEFLATED, ShiftLeft16(33188), UNIX) }

InitArchives == UNION {[1 .. n -> InitEntries] : n \in 0 .. MaxEntries}

\* A file that is no archive, and an archive whose only entry is damaged
NotAZip == <<Hole>>
Damaged == <<Local(NameA, <<255>>),
             EndRecord(<<Info(NameA, ZIP_STORED, ShiftLeft16(33188), UNIX, 0, <<65>>)>>)>>

\* ------------------------------------------------------------------------
\* State

VARIABLES
    paths,   \* the directory: the inode each of the two file names refers to, 0 if none
    files,   \* the content of each inode
    proc,    \* per invocation: position, arguments, locals, open handles, result
    last,    \* the previous call of the session if it was a successful upsert
    probe    \* argument and result of a call of is_symlink_in_zip on its own

vars == <<paths, files, proc, last, probe>>

zip_path == "zip"
temp_zip_inplace == "zip"
\* temp_zip = zip_path + '.tmp'
temp_zip == "tmp"

None == [ok |-> FALSE, text |-> <<>>]
False == [ok |-> FALSE, text |-> <<>>]
True == [ok |-> TRUE, text |-> <<>>]
Returned(text) == [ok |-> TRUE, text |-> text]

\* What is on disk under the archive's name
ZipState ==
    [exists |-> paths[zip_path] # 0,
     bytes |-> IF paths[zip_path] # 0 THEN files[paths[zip_path]] ELSE <<>>]

IdleProc ==
    [pc |-> "idle", fn |-> "none", arg_path |-> NoName, target_path |-> NoName,
     payload |-> <<>>, overwrite |-> FALSE, use_editor |-> FALSE,
     orig |-> 0, infos |-> <<>>, stag |-> 0, start_dir |-> 0, filelist |-> <<>>,
     idx |-> 0, exc |-> "none", raised_at |-> "none", outcome |-> "none",
     result |-> None, before |-> [exists |-> FALSE, bytes |-> <<>>],
     current_content |-> <<>>, rc |-> -1, tmp_bytes |-> <<>>, upserts |-> 0]

NoOp == [fn |-> "none", arg_path |-> NoName, payload |-> <<>>, overwrite |-> FALSE, ndup |-> 0]

UpsertFns == {"create_file_in_zip", "create_symlink_in_zip"}

Count(entries, name) == Cardinality({i \in DOMAIN entries : entries[i].filename = name})

\* What the next call remembers of the one that just returned
Summary(pr) ==
    IF pr.pc = "done" /\ pr.fn \in UpsertFns /\ pr.result.ok
    THEN [fn |-> pr.fn, arg_path |-> pr.arg_path, payload |-> pr.payload,
          overwrite |-> pr.overwrite,
          ndup |-> Count(Entries(pr.before.bytes), pr.target_path)]
    ELSE NoOp

Referenced(pa, pr) ==
    {pa[zip_path], pa[temp_zip]} \cup {pr[q].orig : q \in Procs} \cup {pr[q].stag : q \in Procs}

\* An inode nothing refers to holds nothing
Collect(f, pa, pr) == [i \in Inodes |-> IF i \in Referenced(pa, pr) THEN f[i] ELSE <<>>]

FreeInode == CHOOSE i \in Inodes \ Referenced(paths, proc) :
                 \A j \in Inodes \ Referenced(paths, proc) : i <= j

\* The state a call returns in: both ZipFile handles are closed
Finish(pr, result, outcome) ==
    [pr EXCEPT !.pc = "done", !.result = result, !.outcome = outcome,
               !.orig = 0, !.infos = <<>>, !.stag = 0, !.start_dir = 0,
               !.filelist = <<>>, !.idx = 0]

\* Leaving the with blocks: new_zip.close() writes the central directory at
\* the writer's own offset, then both handles are released.
Closed(pr) == [pr EXCEPT !.orig = 0, !.infos = <<>>, !.stag = 0, !.start_dir = 0,
                         !.filelist = <<>>, !.idx = 0]
CloseWrite(f, pr) ==
    IF pr.stag = 0 THEN f
    ELSE [f EXCEPT ![pr.stag] = WriteAt(f[pr.stag], pr.start_dir, EndRecord(pr.filelist))]

TypeOK ==
    /\ paths \in [{zip_path, temp_zip} -> {0} \cup Inodes]
    /\ DOMAIN files = Inodes
    /\ DOMAIN proc = Procs
    /\ \A p \in Procs : proc[p].orig \in {0} \cup Inodes /\ proc[p].stag \in {0} \cup Inodes
    /\ \A i \in Inodes : i \notin Referenced(paths, proc) => files[i] = <<>>

\* ------------------------------------------------------------------------
\* Initial states

NoProbe == [create_system |-> 0, external_attr |-> [hi |-> 0, lo |-> 0], result |-> "none"]

InitFiles == {Serialize(a) : a \in InitArchives} \cup {NotAZip, Damaged}

Init ==
    /\ \/ /\ paths = [zip |-> 1, tmp |-> 0]
          /\ \E f \in InitFiles : files = [i \in Inodes |-> IF i = 1 THEN f ELSE <<>>]
       \/ /\ paths = [zip |-> 0, tmp |-> 0]
          /\ files = [i \in Inodes |-> <<>>]
    /\ proc = [p \in Procs |-> IdleProc]
    /\ last = NoOp
    /\ probe = NoProbe

\* ------------------------------------------------------------------------
\* create_file_in_zip and create_symlink_in_zip

Begin(p, fn, path, payload, overwrite, use_editor, pc) ==
    /\ proc[p].pc = "idle"
    /\ proc' = [proc EXCEPT ![p] =
           [IdleProc EXCEPT !.pc = pc, !.fn = fn, !.arg_path = path,
                            !.payload = payload, !.overwrite = overwrite,
                            !.use_editor = use_editor, !.before = ZipState]]
    /\ UNCHANGED <<paths, files, last, probe>>

\* interactive_mode: input("Press Enter to continue..."), back to the menu
Continue(p) ==
    /\ proc[p].pc = "done"
    /\ proc' = [proc EXCEPT ![p] = IdleProc]
    /\ last' = Summary(proc[p])
    /\ UNCHANGED <<paths, files, probe>>

create_file_in_zip(p) ==
    \E path \in TargetPaths, content \in Texts, overwrite \in BOOLEAN :
        Begin(p, "create_file_in_zip", path, content, overwrite, FALSE, "exists")

create_symlink_in_zip(p) ==
    \E path \in TargetPaths, target \in Texts, overwrite \in BOOLEAN :
        Begin(p, "create_symlink_in_zip", path, target, overwrite, FALSE, "exists")

\* if not os.path.exists(zip_path): return False
ArchiveMissing(p) ==
    /\ proc[p].pc = "exists"
    /\ paths[zip_path] = 0
    /\ proc' = [proc EXCEPT ![p] = Finish(@, False, "missing")]
    /\ UNCHANGED <<paths, files, last, probe>>

\* target_path = target_path.replace('\\', '/')
NormalizeTarget(p) ==
    /\ proc[p].pc = "exists"
    /\ paths[zip_path] # 0
    /\ proc' = [proc EXCEPT ![p] = [@ EXCEPT !.pc = "open_original",
                                             !.target_path = Normalize(proc[p].arg_path)]]
    /\ UNCHANGED <<paths, files, last, probe>>

\* with zipfile.ZipFile(zip_path, 'r') as original_zip
OpenOriginal(p) ==
    /\ proc[p].pc = "open_original"
    /\ paths[zip_path] # 0
    /\ HasEndRecord(files[paths[zip_path]])
    /\ proc' = [proc EXCEPT ![p] = [@ EXCEPT !.pc = "open_staging",
                                             !.orig = paths[zip_path],
                                             !.infos = infolist(files[paths[zip_path]])]]
    /\ UNCHANGED <<paths, files, last, probe>>

\* ... which raises BadZipFile on a file without an end record
OpenOriginalBad(p) ==
    /\ proc[p].pc = "open_original"
    /\ paths[zip_path] # 0
    /\ ~HasEndRecord(files[paths[zip_path]])
    /\ proc' = [proc EXCEPT ![p] = [@ EXCEPT !.pc = "except", !.exc = "BadZipFile",
                                             !.raised_at = "open_original"]]
    /\ UNCHANGED <<paths, files, last, probe>>

\* with zipfile.ZipFile(temp_zip, 'w', zipfile.ZIP_DEFLATED) as new_zip:
\* open(temp_zip, 'w+b') truncates the file of that name or creates one
OpenStaging(p) ==
    /\ proc[p].pc = "open_staging"
    /\ LET new == IF paths[temp_zip] # 0 THEN paths[temp_zip] ELSE FreeInode IN
       /\ proc' = [proc EXCEPT ![p] = [@ EXCEPT !.pc = "loop", !.stag = new,
                                                !.start_dir = 0, !.filelist = <<>>,
                                                !.idx = 1]]
       /\ paths' = [paths EXCEPT ![temp_zip] = new]
       /\ files' = Collect([files EXCEPT ![new] = <<>>], paths', proc')
    /\ UNCHANGED <<last, probe>>

IsConflict_never(item, target_path, overwrite) == FALSE

\* if item.filename == target_path and not overwrite
IsConflict(item, target_path, overwrite) ==
    item.filename = target_path /\ ~overwrite

ShouldCopy_always(item, target_path) == TRUE

\* if item.filename != target_path
ShouldCopy(item, target_path) == item.filename # target_path

Item(p) == proc[p].infos[proc[p].idx]
InLoop(p) == proc[p].pc = "loop" /\ proc[p].idx <= Len(proc[p].infos)

\* os.remove(temp_zip); return False
ConflictAbort(p) ==
    /\ InLoop(p)
    /\ IsConflict(Item(p), proc[p].target_path, proc[p].overwrite)
    /\ paths[temp_zip] # 0
    /\ proc' = [proc EXCEPT ![p] = [@ EXCEPT !.pc = "return_false", !.outcome = "conflict"]]
    /\ paths' = [paths EXCEPT ![temp_zip] = 0]
    /\ files' = Collect(files, paths', proc')
    /\ UNCHANGED <<last, probe>>

\* os.remove(temp_zip) raises FileNotFoundError: the name is already gone
ConflictRemoveMissing(p) ==
    /\ InLoop(p)
    /\ IsConflict(Item(p), proc[p].target_path, proc[p].overwrite)
    /\ paths[temp_zip] = 0
    /\ proc' = [proc EXCEPT ![p] = [@ EXCEPT !.pc = "unwind", !.exc = "Exception",
                                             !.raised_at = "remove"]]
    /\ UNCHANGED <<paths, files, last, probe>>

\* the return inside the with blocks closes new_zip and original_zip
ReturnFalse(p) ==
    /\ proc[p].pc = "return_false"
    /\ proc' = [proc EXCEPT ![p] = Finish(@, False, @.outcome)]
    /\ files' = Collect(CloseWrite(files, proc[p]), paths, proc')
    /\ UNCHANGED <<paths, last, probe>>

\* data = original_zip.read(item.filename); new_zip.writestr(item, data)
\* read looks the entry up by its name.
CopyEntry(p) ==
    /\ InLoop(p)
    /\ ~IsConflict(Item(p), proc[p].target_path, proc[p].overwrite)
    /\ ShouldCopy(Item(p), proc[p].target_path)
    /\ LET pr == proc[p]
           src == getinfo(pr.infos, Item(p).filename)
           data == ReadData(files[pr.orig], src)
           written == [Item(p) EXCEPT !.header_offset = pr.start_dir, !.CRC = data]
       IN
       /\ ReadOk(files[pr.orig], src)
       /\ proc' = [proc EXCEPT ![p] = [@ EXCEPT !.idx = @ + 1,
                                                !.start_dir = @ + 1,
                                                !.filelist = Append(@, written)]]
       /\ files' = [files EXCEPT ![pr.stag] =
                        WriteAt(@, pr.start_dir, Local(written.filename, data))]
    /\ UNCHANGED <<paths, last, probe>>

\* original_zip.read raises BadZipFile: bad header or bad checksum
CopyEntryBad(p) ==
    /\ InLoop(p)
    /\ ~IsConflict(Item(p), proc[p].target_path, proc[p].overwrite)
    /\ ShouldCopy(Item(p), proc[p].target_path)
    /\ ~ReadOk(files[proc[p].orig], getinfo(proc[p].infos, Item(p).filename))
    /\ proc' = [proc EXCEPT ![p] = [@ EXCEPT !.pc = "unwind", !.exc = "BadZipFile",
                                             !.raised_at = "read"]]
    /\ UNCHANGED <<paths, files, last, probe>>

\* the entry at target_path is not copied when overwrite is set
SkipEntry(p) ==
    /\ InLoop(p)
    /\ ~IsConflict(Item(p), proc[p].target_path, proc[p].overwrite)
    /\ ~ShouldCopy(Item(p), proc[p].target_path)
    /\ proc' = [proc EXCEPT ![p] = [@ EXCEPT !.idx = @ + 1]]
    /\ UNCHANGED <<paths, files, last, probe>>

\* The entry written after the loop
NewInfo(pr) ==
    IF pr.fn = "create_symlink_in_zip"
    THEN Info(pr.target_path, ZIP_STORED, SymlinkAttr, UNIX, pr.start_dir,
              Utf8Encode(pr.payload))
    ELSE Info(pr.target_path, ZIP_DEFLATED, DefaultAttr, UNIX, pr.start_dir,
              Utf8Encode(pr.payload))

\* new_zip.writestr(target_path, file_content) / new_zip.writestr(info, ...)
WriteNew(p) ==
    /\ proc[p].pc = "loop"
    /\ proc[p].idx > Len(proc[p].infos)
    /\ LET pr == proc[p] IN
       /\ proc' = [proc EXCEPT ![p] = [@ EXCEPT !.pc = "close",
                                                !.start_dir = @ + 1,
                                                !.filelist = Append(@, NewInfo(pr))]]
       /\ files' = [files EXCEPT ![pr.stag] =
                        WriteAt(@, pr.start_dir,
                                Local(pr.target_path, Utf8Encode(pr.payload)))]
    /\ UNCHANGED <<paths, last, probe>>

\* end of the with blocks
CloseStaging(p) ==
    /\ proc[p].pc = "close"
    /\ proc' = [proc EXCEPT ![p] = [Closed(@) EXCEPT !.pc = "replace"]]
    /\ files' = Collect(CloseWrite(files, proc[p]), paths, proc')
    /\ UNCHANGED <<paths, last, probe>>

\* os.replace(temp_zip, zip_path); return True.  Inode numbers are names
\* only: the two inodes trade numbers, so the archive keeps its number.
Replace(p) ==
    /\ proc[p].pc = "replace"
    /\ paths[temp_zip] # 0
    /\ LET t == paths[temp_zip]
           z == IF paths[zip_path] # 0 THEN paths[zip_path] ELSE t
           Swap(i) == IF i = t THEN z ELSE IF i = z THEN t ELSE i
       IN
       /\ proc' = [q \in Procs |->
              IF q = p THEN Finish(proc[p], True, "ok")
              ELSE [proc[q] EXCEPT !.orig = Swap(@), !.stag = Swap(@)]]
       /\ paths' = [[paths EXCEPT ![temp_zip] = 0] EXCEPT ![zip_path] = z]
       /\ files' = Collect([i \in Inodes |-> files[Swap(i)]], paths', proc')
    /\ UNCHANGED <<last, probe>>

\* os.replace raises FileNotFoundError: the staging name is gone
ReplaceMissing(p) ==
    /\ proc[p].pc = "replace"
    /\ paths[temp_zip] = 0
    /\ proc' = [proc EXCEPT ![p] = [@ EXCEPT !.pc = "except", !.exc = "Exception",
                                             !.raised_at = "replace"]]
    /\ UNCHANGED <<paths, files, last, probe>>

\* An I/O failure (OSError) in a step of the try block
Fail(p) ==
    /\ proc[p].pc \in {"open_original", "open_staging", "loop", "close", "replace"}
    /\ proc' = [proc EXCEPT ![p] =
           [(IF @.pc = "close" THEN Closed(@) ELSE @)
               EXCEPT !.pc = IF proc[p].pc \in {"open_staging", "loop"}
                             THEN "unwind" ELSE "except",
                      !.exc = "Exception", !.raised_at = proc[p].pc]]
    /\ files' = Collect(files, paths, proc')
    /\ UNCHANGED <<paths, last, probe>>

\* an exception leaves the with blocks
Unwind(p) ==
    /\ proc[p].pc = "unwind"
    /\ proc' = [proc EXCEPT ![p] = [Closed(@) EXCEPT !.pc = "except"]]
    /\ files' = Collect(CloseWrite(files, proc[p]), paths, proc')
    /\ UNCHANGED <<paths, last, probe>>

Cleanup_keep(pa) == pa

\* if os.path.exists(temp_zip): os.remove(temp_zip)
Cleanup(pa) == [pa EXCEPT ![temp_zip] = 0]

\* except zipfile.BadZipFile / except Exception: clean up, return False
Except(p) ==
    /\ proc[p].pc = "except"
    /\ proc[p].fn \in UpsertFns \cup {"edit_file_in_zip"}
    /\ proc' = [proc EXCEPT ![p] =
           Finish(@, False, IF @.exc = "BadZipFile" THEN "badzip" ELSE "error")]
    /\ paths' = Cleanup(paths)
    /\ files' = Collect(files, paths', proc')
    /\ UNCHANGED <<last, probe>>

Upsert(p) ==
    \/ ArchiveMissing(p) \/ NormalizeTarget(p) \/ OpenOriginal(p) \/ OpenOriginalBad(p)
    \/ OpenStaging(p) \/ ConflictAbort(p) \/ ReturnFalse(p) \/ CopyEntry(p)
    \/ CopyEntryBad(p) \/ SkipEntry(p) \/ WriteNew(p) \/ CloseStaging(p)
    \/ Replace(p) \/ Unwind(p) \/ Except(p)

\* ------------------------------------------------------------------------
\* view_file_in_zip and edit_file_in_zip

\* The common start of both: open the archive, look the path up in
\* namelist(), read the entry, decode it with errors='replace'.
ReadEntry(st, path) ==
    IF ~st.exists THEN [outcome |-> "error", text |-> <<>>]
    ELSE IF ~HasEndRecord(st.bytes) THEN [outcome |-> "badzip", text |-> <<>>]
    ELSE IF path \notin namelist(st.bytes) THEN [outcome |-> "not_found", text |-> <<>>]
    ELSE IF ~ReadOk(st.bytes, getinfo(infolist(st.bytes), path))
         THEN [outcome |-> "badzip", text |-> <<>>]
    ELSE LET d == decode(ReadData(st.bytes, getinfo(infolist(st.bytes), path)), "replace")
         IN  IF d.raised THEN [outcome |-> "decode_error", text |-> <<>>]
             ELSE [outcome |-> "ok", text |-> d.text]

view_file_in_zip(p) ==
    \E path \in TargetPaths :
        Begin(p, "view_file_in_zip", path, <<>>, FALSE, FALSE, "view")

ViewFile(p) ==
    /\ proc[p].pc = "view"
    /\ LET r == ReadEntry(ZipState, proc[p].arg_path) IN
       proc' = [proc EXCEPT ![p] =
           Finish(@, IF r.outcome = "ok" THEN Returned(r.text) ELSE None, r.outcome)]
    /\ UNCHANGED <<paths, files, last, probe>>

edit_file_in_zip(p) ==
    \E path \in TargetPaths, use_editor \in BOOLEAN :
        Begin(p, "edit_file_in_zip", path, <<>>, FALSE, use_editor, "edit_read")

\* Read current content
EditRead(p) ==
    /\ proc[p].pc = "edit_read"
    /\ LET r == ReadEntry(ZipState, proc[p].arg_path) IN
       proc' = [proc EXCEPT ![p] =
           IF r.outcome # "ok" THEN Finish(@, False, r.outcome)
           ELSE [@ EXCEPT !.pc = IF proc[p].use_editor THEN "editor" ELSE "inline",
                          !.current_content = r.text]]
    /\ UNCHANGED <<paths, files, last, probe>>

CallUpsert_no_overwrite(pr, new_content) ==
    [pr EXCEPT !.pc = "exists", !.payload = new_content, !.overwrite = FALSE,
               !.upserts = @ + 1]

\* return create_file_in_zip(zip_path, target_path, new_content, overwrite=True)
CallUpsert(pr, new_content) ==
    [pr EXCEPT !.pc = "exists", !.payload = new_content, !.overwrite = TRUE,
               !.upserts = @ + 1]

\* edit_with_external_editor finds no editor and returns None: "Edit cancelled"
NoEditor(p) ==
    /\ proc[p].pc = "editor"
    /\ proc' = [proc EXCEPT ![p] = Finish(@, False, "cancelled")]
    /\ UNCHANGED <<paths, files, last, probe>>

\* the editor cannot be started: subprocess.run raises, edit_file_in_zip
\* catches it and returns False
EditorFail(p) ==
    /\ proc[p].pc = "editor"
    /\ proc' = [proc EXCEPT ![p] = Finish(@, False, "error")]
    /\ UNCHANGED <<paths, files, last, probe>>

\* subprocess.run(['nvim', tmp_path]): the editor leaves some bytes in the
\* temporary file (written there in UTF-8) and exits with some code
EditorRun(p) ==
    /\ proc[p].pc = "editor"
    /\ \E rc \in {0, 1}, bytes \in EditorBytes \cup {Utf8Encode(proc[p].current_content)} :
          proc' = [proc EXCEPT ![p] = [@ EXCEPT !.pc = "editor_exit", !.rc = rc,
                                                !.tmp_bytes = bytes]]
    /\ UNCHANGED <<paths, files, last, probe>>

\* if result.returncode == 0: open(tmp_path, 'r', encoding='utf-8').read()
EditorExit(p) ==
    /\ proc[p].pc = "editor_exit"
    /\ LET d == decode(proc[p].tmp_bytes, "strict") IN
       proc' = [proc EXCEPT ![p] =
           IF proc[p].rc # 0 THEN Finish(@, False, "cancelled")
           ELSE IF d.raised THEN Finish(@, False, "decode_error")
           ELSE CallUpsert(@, d.text)]
    /\ UNCHANGED <<paths, files, last, probe>>

\* inline mode: the new content is what the user types
InlineInput(p) ==
    /\ proc[p].pc = "inline"
    /\ \E text \in Texts : proc' = [proc EXCEPT ![p] = CallUpsert(@, text)]
    /\ UNCHANGED <<paths, files, last, probe>>

Edit(p) ==
    \/ EditRead(p) \/ NoEditor(p) \/ EditorFail(p) \/ EditorRun(p) \/ EditorExit(p)
    \/ InlineInput(p)

\* ------------------------------------------------------------------------
\* One session on one archive (interactive_mode, or one command after another)

Next ==
    \/ create_file_in_zip(1)
    \/ create_symlink_in_zip(1)
    \/ view_file_in_zip(1)
    \/ edit_file_in_zip(1)
    \/ Continue(1)
    \/ Upsert(1)
    \/ Fail(1)
    \/ ViewFile(1)
    \/ Edit(1)

Spec == Init /\ [][Next]_vars

\* ------------------------------------------------------------------------
\* Two invocations at once on the same archive, one call each

ConcArchives == UNION {[1 .. n -> InitEntries] : n \in 0 .. 1}

InitConc ==
    /\ \/ /\ paths = [zip |-> 1, tmp |-> 0]
          /\ \E f \in {Serialize(a) : a \in ConcArchives} \cup {NotAZip, Damaged} :
                files = [i \in Inodes |-> IF i = 1 THEN f ELSE <<>>]
       \/ /\ paths = [zip |-> 0, tmp |-> 0]
          /\ files = [i \in Inodes |-> <<>>]
    /\ proc = [p \in Procs |-> IdleProc]
    /\ last = NoOp
    /\ probe = NoProbe

Invoke(p) ==
    /\ \E fn \in UpsertFns, path \in TargetPaths, overwrite \in BOOLEAN :
          Begin(p, fn, path, <<65>>, overwrite, FALSE, "exists")

NextConc ==
    \E p \in Procs :
        \/ Invoke(p)
        \/ Upsert(p)
        \/ ConflictRemoveMissing(p)
        \/ ReplaceMissing(p)

SpecConc == InitConc /\ [][NextConc]_vars

\* ------------------------------------------------------------------------
\* is_symlink_in_zip on its own

ProbeAttrs ==
    {[hi |-> t * 4096 + perm, lo |-> lo] :
        t \in 0 .. 15, perm \in {0, LINK_PERM, 4095}, lo \in {0, 16, S_IFLNK}}

InitInspector ==
    /\ paths = [zip |-> 0, tmp |-> 0]
    /\ files = [i \in Inodes |-> <<>>]
    /\ proc = [p \in Procs |-> IdleProc]
    /\ last = NoOp
    /\ \E sys \in 0 .. MaxSystem, attr \in ProbeAttrs :
          probe = [create_system |-> sys, external_attr |-> attr, result |-> "none"]

Inspect ==
    /\ probe.result = "none"
    /\ probe' = [probe EXCEPT !.result =
                    IF is_symlink_in_zip(probe) THEN "symlink" ELSE "other"]
    /\ UNCHANGED <<paths, files, proc, last>>

NextInspector == Inspect

SpecInspector == InitInspector /\ [][NextInspector]_vars

\* ------------------------------------------------------------------------
\* Properties

Done(p) == proc[p].pc = "done"
IsUpsert(p) == proc[p].fn \in UpsertFns
GoodBefore(p) == proc[p].before.exists /\ WellFormed(proc[p].before.bytes)
BeforeEntries(p) == Entries(proc[p].before.bytes)
NowEntries == Entries(ZipState.bytes)
Names(entries) == {entries[i].filename : i \in DOMAIN entries}
LastNamed(entries, name) ==
    entries[Maximum({i \in DOMAIN entries : entries[i].filename = name})]

\* C1 (Preservation): after a successful upsert at P on a complete archive,
\* every entry of the source archive whose path is not the normalized P is
\* found in the resulting archive with the same path, content and attributes.
C1_Preservation ==
    \A p \in Procs :
        (Done(p) /\ IsUpsert(p) /\ proc[p].result.ok /\ GoodBefore(p)) =>
            /\ WellFormed(ZipState.bytes)
            /\ \A i \in DOMAIN BeforeEntries(p) :
                  BeforeEntries(p)[i].filename # Normalize(proc[p].arg_path) =>
                      \E j \in DOMAIN NowEntries : NowEntries[j] = BeforeEntries(p)[i]

C3_ConflictGuard ==
    \A p \in Procs :
        (/\ Done(p) /\ IsUpsert(p) /\ ~proc[p].overwrite /\ GoodBefore(p)
         /\ Normalize(proc[p].arg_path) \in Names(BeforeEntries(p))) =>
            /\ ~proc[p].result.ok
            /\ ZipState = proc[p].before

\* the conflict is reported for a path given with a backslash, on an entry
\* that is not the first of the archive
C3_Witness ==
    \E p \in Procs :
        /\ Done(p) /\ IsUpsert(p) /\ proc[p].outcome = "conflict"
        /\ GoodBefore(p)
        /\ proc[p].arg_path # Normalize(proc[p].arg_path)
        /\ BeforeEntries(p)[1].filename # Normalize(proc[p].arg_path)

\* C4 (two invocations at once): in every reachable state the file under the
\* archive's name is a complete archive (or the file that was there at first).
C4_NoTornArchive ==
    ZipState.exists =>
        \/ WellFormed(ZipState.bytes)
        \/ ZipState.bytes \in {NotAZip, Damaged}

\* C5 (Staging cleanup): when an upsert has returned, by whatever path, no
\* file exists under the staging name and both ZipFile handles are closed.
C5_StagingCleanup ==
    \A p \in Procs :
        (Done(p) /\ (IsUpsert(p) \/ proc[p].upserts > 0)) =>
            /\ paths[temp_zip] = 0
            /\ proc[p].stag = 0
            /\ proc[p].orig = 0

\* an upsert that opened its staging file and then met a damaged entry
C5_Witness ==
    \E p \in Procs :
        /\ Done(p) /\ IsUpsert(p)
        /\ proc[p].exc = "BadZipFile" /\ proc[p].raised_at = "read"
        /\ paths[temp_zip] = 0

\* C6 (Symlink round-trip): when view_file_in_zip(P) follows a successful
\* create_symlink_in_zip(P, T), it returns T, and the entry stored for P is
\* classified as a symlink.
C6_SymlinkRoundTrip ==
    \A p \in Procs :
        (/\ Done(p) /\ proc[p].fn = "view_file_in_zip"
         /\ last.fn = "create_symlink_in_zip" /\ last.arg_path = proc[p].arg_path) =>
            /\ proc[p].result = Returned(last.payload)
            /\ is_symlink_in_zip(LastNamed(NowEntries, Normalize(proc[p].arg_path)))

\* C7 (Idempotent overwrite): when a successful create_file_in_zip(P, c,
\* overwrite) follows a successful call with the same arguments, the archive
\* holds exactly one entry at the normalized P, its content is c encoded,
\* and the file is what the first call left (entries equal in path, content,
\* compression, external attributes and origin tag).
C7_IdempotentOverwrite ==
    \A p \in Procs :
        (/\ Done(p) /\ proc[p].fn = "create_file_in_zip" /\ proc[p].overwrite
         /\ proc[p].result.ok
         /\ last.fn = "create_file_in_zip" /\ last.overwrite
         /\ last.arg_path = proc[p].arg_path /\ last.payload = proc[p].payload) =>
            /\ WellFormed(ZipState.bytes)
            /\ Count(NowEntries, Normalize(proc[p].arg_path)) = 1
            /\ LastNamed(NowEntries, Normalize(proc[p].arg_path)).data
                  = Utf8Encode(proc[p].payload)
            /\ ZipState = proc[p].before

\* the first of the two calls found several entries at P
C7_Witness ==
    \E p \in Procs :
        /\ Done(p) /\ proc[p].fn = "create_file_in_zip" /\ proc[p].overwrite
        /\ proc[p].result.ok
        /\ last.fn = "create_file_in_zip" /\ last.overwrite
        /\ last.arg_path = proc[p].arg_path /\ last.payload = proc[p].payload
        /\ last.ndup >= 2
        /\ Len(NowEntries) >= 2

\* C8 (Content read): on a complete archive, view_file_in_zip reports "not
\* found" and returns nothing when the path is absent, reports a decode error
\* and returns nothing when the entry's content is not valid UTF-8, and leaves
\* the archive as it was; edit_file_in_zip never hands such content on to the
\* editor or the inline prompt.
C8_ContentRead ==
    \A p \in Procs :
        /\ (Done(p) /\ proc[p].fn = "view_file_in_zip" /\ GoodBefore(p)) =>
              /\ ZipState = proc[p].before
              /\ proc[p].arg_path \notin Names(BeforeEntries(p)) =>
                    (proc[p].outcome = "not_found" /\ ~proc[p].result.ok)
              /\ (/\ proc[p].arg_path \in Names(BeforeEntries(p))
                  /\ ~Utf8Valid(LastNamed(BeforeEntries(p), proc[p].arg_path).data)) =>
                    (proc[p].outcome = "decode_error" /\ ~proc[p].result.ok)
        /\ (proc[p].fn = "edit_file_in_zip" /\ proc[p].pc \in {"editor", "inline"}) =>
              Utf8Valid(LastNamed(BeforeEntries(p), proc[p].arg_path).data)

EditorHasExited(p) ==
    /\ proc[p].fn = "edit_file_in_zip"
    /\ proc[p].use_editor
    /\ proc[p].rc # -1
    /\ proc[p].pc # "editor_exit"

NoUpsert(p) ==
    /\ proc[p].upserts = 0
    /\ ZipState = proc[p].before
    /\ Done(p) /\ ~proc[p].result.ok

OneUpsert(p) ==
    /\ proc[p].upserts = 1
    /\ Utf8Encode(proc[p].payload) = proc[p].tmp_bytes
    /\ proc[p].overwrite

\* C9 as claimed (Edit cycle): once the editor has exited with code 0,
\* exactly one upsert of the temp-file content at P with overwrite=true has
\* been called; once it has exited with another code, or when P is absent,
\* no upsert is called, the archive is unchanged and the edit returns False.
C9_EditCycle ==
    \A p \in Procs :
        /\ (EditorHasExited(p) /\ proc[p].rc = 0) => OneUpsert(p)
        /\ (EditorHasExited(p) /\ proc[p].rc # 0) => NoUpsert(p)
        /\ (/\ Done(p) /\ proc[p].fn = "edit_file_in_zip" /\ GoodBefore(p)
            /\ proc[p].arg_path \notin Names(BeforeEntries(p))) => NoUpsert(p)

\* C9 as amended: the upsert follows an exit with code 0 only when the
\* temp-file content is valid UTF-8; when it is not, the edit is aborted like
\* after a non-zero exit.
C9_EditCycleDecoded ==
    \A p \in Procs :
        /\ (EditorHasExited(p) /\ proc[p].rc = 0 /\ Utf8Valid(proc[p].tmp_bytes)) =>
              OneUpsert(p)
        /\ (EditorHasExited(p) /\ proc[p].rc = 0 /\ ~Utf8Valid(proc[p].tmp_bytes)) =>
              NoUpsert(p)
        /\ (EditorHasExited(p) /\ proc[p].rc # 0) => NoUpsert(p)
        /\ (/\ Done(p) /\ proc[p].fn = "edit_file_in_zip" /\ GoodBefore(p)
            /\ proc[p].arg_path \notin Names(BeforeEntries(p))) => NoUpsert(p)
        /\ proc[p].upserts <= 1

\* an edit whose editor exited with 0 and whose one upsert replaced the archive
C9_Witness ==
    \E p \in Procs :
        /\ Done(p) /\ EditorHasExited(p) /\ proc[p].rc = 0
        /\ proc[p].upserts = 1 /\ proc[p].result.ok
        /\ ZipState # proc[p].before
        /\ LastNamed(NowEntries, proc[p].arg_path).data = proc[p].tmp_bytes

\* C10 (Entry Inspector): is_symlink_in_zip answers true exactly when the
\* origin tag is 3 and bits 28..31 of the external attributes are 1010
\* (file type 0o120000 under the mask 0o170000); the attributes
\* create_symlink_in_zip writes are classified as a symlink.
C10_Inspector ==
    probe.result # "none" =>
        /\ (probe.result = "symlink") <=>
              (probe.create_system = 3 /\ (probe.external_attr.hi \div 4096) % 16 = 10)
        /\ (/\ probe.create_system
                  = NewInfo([IdleProc EXCEPT !.fn = "create_symlink_in_zip"]).create_system
            /\ probe.external_attr
                  = NewInfo([IdleProc EXCEPT !.fn = "create_symlink_in_zip"]).external_attr) =>
              probe.result = "symlink"

\* the attributes of a created symlink, 0o120755 << 16 with origin 3, inspected
C10_Witness ==
    /\ probe.result = "symlink"
    /\ probe.create_system = 3
    /\ probe.external_attr = [hi |-> 41453, lo |-> 0]

\* The entries of a sequence whose path is not `name`, in their order
Kept(entries, name) ==
    LET Other(e) == e.filename # name IN SelectSeq(entries, Other)

\* C11 (Result ordering): after a successful upsert at P on a complete
\* archive, the resulting entry sequence is the source sequence without the
\* entries at the normalized P, in their order, followed by the new entry
\* for P as the last one.
C11_ResultOrdering ==
    \A p \in Procs :
        (Done(p) /\ IsUpsert(p) /\ proc[p].result.ok /\ GoodBefore(p)) =>
            /\ WellFormed(ZipState.bytes)
            /\ Len(NowEntries) = Len(Kept(BeforeEntries(p), Normalize(proc[p].arg_path))) + 1
            /\ SubSeq(NowEntries, 1, Len(NowEntries) - 1)
                  = Kept(BeforeEntries(p), Normalize(proc[p].arg_path))
            /\ NowEntries[Len(NowEntries)].filename = Normalize(proc[p].arg_path)
            /\ NowEntries[Len(NowEntries)].data = Utf8Encode(proc[p].payload)

====
